---------------------------- MODULE Spec2Model ----------------------------
(***************************************************************************)
(* A model of src/src/extractor.py, the AMI annotation extractor.          *)
(*                                                                         *)
(* Conventions.                                                            *)
(*   - A Python str is a sequence of one-character strings.                *)
(*   - A Python list, and a dict in its insertion order, is a sequence; a  *)
(*     dict is a sequence of <<key, value>> pairs.                         *)
(*   - None is the empty tuple <<>>, a value v that may be None is <<v>>.  *)
(*   - List indices are Python's (from 0); Item(l, i) is l[i].             *)
(*   - A call returns [exc, val]: exc is NoExc and val the returned value, *)
(*     or exc names the exception raised and val is <<>>.                  *)
(*   - A time is an integer number of fifths of a millisecond (0.0002 s),  *)
(*     so that "%.3f" has something to round and never meets a tie.        *)
(*   - An XML attribute holding a number is given as the number float()    *)
(*     returns for it; element text is always present (a str).             *)
(***************************************************************************)
EXTENDS Integers, Sequences, FiniteSets, TLC

VARIABLES
    pc,             \* the position of the run
    exc,            \* the exception that ended the run, NoExc while none
    seg_file,       \* per-speaker harness: the segments file
    words_file,     \* per-speaker harness: the words file
    spkr_seg,       \* parse_segments' return (run_from_cli line 180)
    spkr_words,     \* list(parse_words(...).values()) (line 181)
    grouped_words,  \* join_seg_words' return (line 194)
    sentences,      \* the speaker's utterances (lines 195-204)
    meet_id,        \* make_rttm harness: its meet_id argument
    transcripts,    \* meeting -> speaker label -> utterances (line 190)
    speakers,       \* meeting -> speaker label -> {id, channel} (line 155)
    result,         \* make_rttm's local list of (start, row) (lines 111-122)
    rttm,           \* make_rttm's return (lines 123-125)
    meetings,       \* run_from_cli: the roster's meetings (line 149)
    fs,             \* run_from_cli: the annotation files, path -> file
    meet_data,      \* run_from_cli: meet_data (line 170)
    rttms,          \* run_from_cli: rttms (line 209)
    output,         \* run_from_cli: the files written (lines 216-218)
    cursor          \* run_from_cli: the index of the meeting a loop is at

vars == <<pc, exc, seg_file, words_file, spkr_seg, spkr_words, grouped_words,
          sentences, meet_id, transcripts, speakers, result, rttm, meetings,
          fs, meet_data, rttms, output, cursor>>

speaker_vars == <<seg_file, words_file, spkr_seg, spkr_words, grouped_words,
                  sentences>>

rttm_vars == <<meet_id, result, rttm>>

cli_vars == <<meetings, fs, meet_data, rttms, output, cursor>>

-----------------------------------------------------------------------------
(* Bounds of the model.                                                    *)

MaxSegNodes == 2

MaxWordNodes == 3

MaxTurns == 3

-----------------------------------------------------------------------------
(* Python values.                                                          *)

None == <<>>

NoExc == "none"

FileNotFound == "FileNotFoundError"

NoWordId == "Couldn't extract word id in segment xml"

UnknownType == "Encountered unknown type of word while parsing segments"

KeyError == "KeyError"

Return(v) == [exc |-> NoExc, val |-> v]

Raise(e) == [exc |-> e, val |-> <<>>]

Item(l, i) == l[i + 1]

Min(S) == CHOOSE x \in S : \A y \in S : x <= y

Max(S) == CHOOSE x \in S : \A y \in S : x >= y

\* dict: the keys in insertion order, membership, lookup, and d[k] = v
Keys(d) == [i \in 1..Len(d) |-> d[i][1]]

HasKey(d, k) == \E i \in 1..Len(d) : d[i][1] = k

Get(d, k) == d[CHOOSE i \in 1..Len(d) : d[i][1] = k][2]

Put(d, k, v) ==
    IF HasKey(d, k)
    THEN [i \in 1..Len(d) |-> IF d[i][1] = k THEN <<k, v>> ELSE d[i]]
    ELSE Append(d, <<k, v>>)

Values(d) == [i \in 1..Len(d) |-> d[i][2]]

-----------------------------------------------------------------------------
(* str operations.                                                         *)

Digits == <<"0", "1", "2", "3", "4", "5", "6", "7", "8", "9">>

IsDigit(c) == \E d \in 1..10 : Digits[d] = c

DigitVal(c) == (CHOOSE d \in 1..10 : Digits[d] = c) - 1

\* int(s) of a str of decimal digits
RECURSIVE int(_)
int(s) ==
    IF Len(s) = 0 THEN 0
    ELSE 10 * int(SubSeq(s, 1, Len(s) - 1)) + DigitVal(s[Len(s)])

\* s.split('#')[-1]
LastAfterHash(s) ==
    LET hits == {i \in 1..Len(s) : s[i] = "#"}
    IN  IF hits = {} THEN s ELSE SubSeq(s, Max(hits) + 1, Len(s))

\* s.split('..'): leftmost, non-overlapping occurrences of the separator
RECURSIVE split(_)
split(s) ==
    LET hits == {i \in 1..(Len(s) - 1) : s[i] = "." /\ s[i + 1] = "."}
    IN  IF hits = {} THEN <<s>>
        ELSE <<SubSeq(s, 1, Min(hits) - 1)>>
                 \o split(SubSeq(s, Min(hits) + 2, Len(s)))

WordsLit == <<"w", "o", "r", "d", "s">>

\* re.compile(r"words(\d+)").search(s): None, or group(1) of the leftmost
\* match, the longest run of digits after the literal
word_id_pattern_search(s) ==
    LET starts == {p \in 1..Len(s) :
                      /\ p + 5 <= Len(s)
                      /\ SubSeq(s, p, p + 4) = WordsLit
                      /\ IsDigit(s[p + 5])}
    IN  IF starts = {} THEN None
        ELSE LET p == Min(starts)
                 last == Max({q \in (p + 5)..Len(s) :
                                 \A r \in (p + 5)..q : IsDigit(s[r])})
             IN  <<SubSeq(s, p + 5, last)>>

\* ' '.join(l) of a list of str
RECURSIVE join(_)
join(l) ==
    IF Len(l) = 0 THEN <<>>
    ELSE IF Len(l) = 1 THEN l[1]
    ELSE l[1] \o <<" ">> \o join(Tail(l))

-----------------------------------------------------------------------------
(* chk_file, parse_segments, parse_words.  A file is None when the path is *)
(* no file, else <<root>>, root the list of the document root's children.  *)

chk_file(f) == IF f = None THEN Raise(FileNotFound) ELSE Return(None)

\* SegmentNode, were a one-token reference taken as the range of one word
SegmentNodeSingleAsRange(segments, i) ==
    LET boundary == split(LastAfterHash(i.href))
        ms == [k \in 1..Len(boundary) |-> word_id_pattern_search(boundary[k])]
    IN  IF Len(boundary) > 2 THEN Raise(UnknownType)
        ELSE IF \E k \in 1..Len(boundary) : ms[k] = None THEN Raise(NoWordId)
        ELSE Return(Append(segments,
                 [start |-> i.transcriber_start,
                  end |-> i.transcriber_end,
                  from_word |-> int(ms[1][1]),
                  to_word |-> int(ms[Len(boundary)][1])]))

\* SegmentNode, were a reference it cannot read skipped like a one-token one
SegmentNodeLenient(segments, i) ==
    LET boundary == split(LastAfterHash(i.href))
    IN  IF /\ Len(boundary) = 2
           /\ word_id_pattern_search(boundary[1]) # None
           /\ word_id_pattern_search(boundary[2]) # None
        THEN Return(Append(segments,
                 [start |-> i.transcriber_start,
                  end |-> i.transcriber_end,
                  from_word |-> int(word_id_pattern_search(boundary[1])[1]),
                  to_word |-> int(word_id_pattern_search(boundary[2])[1])]))
        ELSE Return(segments)

\* one pass of the loop body, lines 25-53: the segments list after the node,
\* or the exception the node raises
SegmentNode(segments, i) ==
    LET id_str == LastAfterHash(i.href)
        boundary == split(id_str)
    IN  IF Len(boundary) = 2
        THEN LET from_m == word_id_pattern_search(boundary[1])
                 to_m == word_id_pattern_search(boundary[2])
             IN  IF from_m = None THEN Raise(NoWordId)
                 ELSE IF to_m = None THEN Raise(NoWordId)
                 ELSE Return(Append(segments,
                          [start |-> i.transcriber_start,
                           end |-> i.transcriber_end,
                           from_word |-> int(from_m[1]),
                           to_word |-> int(to_m[1])]))
        ELSE IF Len(boundary) = 1 THEN Return(segments)
        ELSE Raise(UnknownType)

RECURSIVE SegmentLoop(_, _)
SegmentLoop(segments, root) ==
    IF Len(root) = 0 THEN Return(segments)
    ELSE LET r == SegmentNode(segments, Head(root))
         IN  IF r.exc # NoExc THEN r ELSE SegmentLoop(r.val, Tail(root))

parse_segments(file) ==
    IF chk_file(file).exc # NoExc THEN chk_file(file)
    ELSE SegmentLoop(<<>>, file[1])

\* one pass of the loop body, lines 67-84: the value stored under the node's id
WordNode(i) ==
    IF i.tag # "w" THEN None
    ELSE IF ("starttime" \notin DOMAIN i.attrib) \/ ("endtime" \notin DOMAIN i.attrib)
    THEN None
    ELSE <<[start |-> i.attrib["starttime"],
            end |-> i.attrib["endtime"],
            content |-> i.text,
            punc |-> IF "punc" \in DOMAIN i.attrib THEN TRUE ELSE FALSE]>>

\* WordLoop, were a gap given no place in the timeline
RECURSIVE WordLoopSkipGaps(_, _)
WordLoopSkipGaps(words, root) ==
    IF Len(root) = 0 THEN words
    ELSE IF WordNode(Head(root)) = None THEN WordLoopSkipGaps(words, Tail(root))
    ELSE WordLoopSkipGaps(Put(words, Head(root).id, WordNode(Head(root))), Tail(root))

RECURSIVE WordLoop(_, _)
WordLoop(words, root) ==
    IF Len(root) = 0 THEN words
    ELSE WordLoop(Put(words, Head(root).id, WordNode(Head(root))), Tail(root))

parse_words(file) ==
    IF chk_file(file).exc # NoExc THEN chk_file(file)
    ELSE Return(WordLoop(<<>>, file[1]))

-----------------------------------------------------------------------------
(* join_seg_words and the sentences of run_from_cli.                       *)

\* words[a:b] for a, b >= 0: the bounds are clipped to the list, never an error
Slice(words, a, b) ==
    LET lo == IF a > Len(words) THEN Len(words) ELSE a
        hi == IF b > Len(words) THEN Len(words) ELSE b
    IN  IF lo >= hi THEN <<>> ELSE SubSeq(words, lo + 1, hi)

\* SegWords, were the slice words[from_idx:to_idx]
SegWordsExclusive(words, from_idx, to_idx) ==
    SelectSeq(Slice(words, from_idx, to_idx), LAMBDA x : x # None)

\* SegWords, were the two indices put in order first
SegWordsEitherOrder(words, from_idx, to_idx) ==
    IF from_idx <= to_idx
    THEN SelectSeq(Slice(words, from_idx, to_idx + 1), LAMBDA x : x # None)
    ELSE SelectSeq(Slice(words, to_idx, from_idx + 1), LAMBDA x : x # None)

\* line 94
SegWords(words, from_idx, to_idx) ==
    SelectSeq(Slice(words, from_idx, to_idx + 1), LAMBDA x : x # None)

\* join_seg_words, were the words taken one index at a time
join_seg_words_indexed(segments, words) ==
    IF \E k \in 1..Len(segments) :
           segments[k].from_word <= segments[k].to_word /\ segments[k].to_word >= Len(words)
    THEN Raise("IndexError")
    ELSE Return([k \in 1..Len(segments) |->
                    SelectSeq(Slice(words, segments[k].from_word, segments[k].to_word + 1),
                              LAMBDA x : x # None)])

join_seg_words(segments, words) ==
    Return([k \in 1..Len(segments) |->
               SegWords(words, segments[k].from_word, segments[k].to_word)])

\* lines 200-204, of one group i of non-None words (each <<entry>>)
Sentence(i) ==
    [start |-> i[1][1].start,
     end |-> i[Len(i)][1].end,
     content |-> join([k \in 1..Len(i) |-> i[k][1].content])]

\* Sentences, were the loop left at the first empty group
RECURSIVE SentencesBreak(_)
SentencesBreak(grouped) ==
    IF Len(grouped) = 0 THEN <<>>
    ELSE IF Len(Head(grouped)) = 0 THEN <<>>
    ELSE <<Sentence(Head(grouped))>> \o SentencesBreak(Tail(grouped))

\* lines 195-204
RECURSIVE Sentences(_)
Sentences(grouped) ==
    IF Len(grouped) = 0 THEN <<>>
    ELSE IF Len(Head(grouped)) = 0 THEN Sentences(Tail(grouped))
    ELSE <<Sentence(Head(grouped))>> \o Sentences(Tail(grouped))

-----------------------------------------------------------------------------
(* make_rttm.  A row is the list of the ten fields that line 119 joins     *)
(* with spaces; a "%.3f" field is <<sign, thousandths>>.                   *)

Abs(x) == IF x < 0 THEN -x ELSE x

\* "%.3f" % x, x in fifths of a millisecond: the nearest thousandth, the
\* sign kept even when the digits are all zero ("-0.000")
Fmt3(x) == <<IF x < 0 THEN "-" ELSE "", (Abs(x) + 2) \div 5>>

\* lines 119-120
Row(meet, start, end, name) ==
    <<"SPEAKER", meet, "1", Fmt3(start), Fmt3(end - start), "<NA>", "<NA>",
      name, "<NA>", "<NA>">>

\* lines 114-120 for one speaker: result after the speaker's utterances;
\* speakers[meet_id][spkr_id] is looked up once per utterance
RECURSIVE AppendSpeaker(_, _, _, _, _)
AppendSpeaker(res, meet, spkr_id, data, spkrs) ==
    IF Len(data) = 0 THEN Return(res)
    ELSE IF ~HasKey(spkrs, meet) THEN Raise(KeyError)
    ELSE IF ~HasKey(Get(spkrs, meet), spkr_id) THEN Raise(KeyError)
    ELSE AppendSpeaker(
             Append(res, <<Head(data).start,
                           Row(meet, Head(data).start, Head(data).end,
                               Get(Get(spkrs, meet), spkr_id).id)>>),
             meet, spkr_id, Tail(data), spkrs)

\* RttmRows, were a speaker the roster does not know passed over
RECURSIVE RttmRowsSkipUnknown(_, _, _, _)
RttmRowsSkipUnknown(res, meet, items, spkrs) ==
    IF Len(items) = 0 THEN Return(res)
    ELSE LET r == AppendSpeaker(res, meet, Head(items)[1], Head(items)[2], spkrs)
         IN  IF r.exc # NoExc
             THEN RttmRowsSkipUnknown(res, meet, Tail(items), spkrs)
             ELSE RttmRowsSkipUnknown(r.val, meet, Tail(items), spkrs)

\* lines 113-120: result after the items of transcripts[meet_id]
RECURSIVE RttmRows(_, _, _, _)
RttmRows(res, meet, items, spkrs) ==
    IF Len(items) = 0 THEN Return(res)
    ELSE LET r == AppendSpeaker(res, meet, Head(items)[1], Head(items)[2], spkrs)
         IN  IF r.exc # NoExc THEN r
             ELSE RttmRows(r.val, meet, Tail(items), spkrs)

\* InsertSorted, were an item put before the items of its own start
InsertBeforeEqual(l, x) ==
    LET n == Cardinality({i \in 1..Len(l) : l[i][1] < x[1]})
    IN  SubSeq(l, 1, n) \o <<x>> \o SubSeq(l, n + 1, Len(l))

\* x put into a list sorted by start, after the items of the same start
InsertSorted(l, x) ==
    LET n == Cardinality({i \in 1..Len(l) : l[i][1] <= x[1]})
    IN  SubSeq(l, 1, n) \o <<x>> \o SubSeq(l, n + 1, Len(l))

\* line 122, list.sort(key=lambda x: x[0]): a stable sort on the first field
RECURSIVE SortByStart(_)
SortByStart(l) ==
    IF Len(l) = 0 THEN <<>>
    ELSE InsertSorted(SortByStart(SubSeq(l, 1, Len(l) - 1)), l[Len(l)])

\* line 123
RowsOnly(l) == [i \in 1..Len(l) |-> l[i][2]]

make_rttm(meet, trans, spkrs) ==
    IF ~HasKey(trans, meet) THEN Raise(KeyError)
    ELSE LET r == RttmRows(<<>>, meet, Get(trans, meet), spkrs)
         IN  IF r.exc # NoExc THEN r
             ELSE Return(RowsOnly(SortByStart(r.val)))

-----------------------------------------------------------------------------
(* The per-speaker part of run_from_cli (lines 180-181 and 194-206) as a   *)
(* run of its own: parse_segments, parse_words, join_seg_words, sentences. *)
(* A local not yet assigned is Unbound, an assigned one is <<value>>.      *)

Unbound == <<>>

Bound(v) == <<v>>

\* the href of the source's example (line 49): file, '#', then the reference
HrefFile == <<"I", "S", "1", "0", "0", "0", "a", ".", "D", ".", "w", "o", "r", "d", "s", ".", "x", "m", "l", "#">>

IdOf(tail) == <<"i", "d", "(", "I", "S", "1", "0", "0", "0", "a", ".", "D", ".">> \o tail \o <<")">>

WordId(digits) == IdOf(WordsLit \o digits)

DotDot == <<".", ".">>

RangeHref(a, b) == HrefFile \o WordId(a) \o DotDot \o WordId(b)

\* references of every shape parse_segments tells apart
SegHrefs ==
    { RangeHref(<<"0">>, <<"1">>),
      RangeHref(<<"1">>, <<"1">>),
      RangeHref(<<"1">>, <<"2">>),
      RangeHref(<<"2">>, <<"0">>),
      RangeHref(<<"0">>, <<"1", "2">>),
      RangeHref(<<"4">>, <<"5">>),
      HrefFile \o WordId(<<"1">>),
      HrefFile \o WordId(<<"0">>) \o <<".">> \o DotDot \o WordId(<<"2">>),
      HrefFile \o WordId(<<"0">>) \o DotDot \o WordId(<<"1">>) \o DotDot \o WordId(<<"2">>),
      HrefFile \o WordId(<<"0">>) \o DotDot \o IdOf(WordsLit),
      HrefFile \o IdOf(<<"w", "0">>) \o DotDot \o WordId(<<"1">>) }

\* the references the joint runs draw from
FewHrefs ==
    { RangeHref(<<"0">>, <<"1">>),
      RangeHref(<<"2">>, <<"0">>),
      RangeHref(<<"0">>, <<"1", "2">>),
      HrefFile \o WordId(<<"1">>) }

\* the k-th segment node: its first child's href and its own timing
SegNode(href, k) ==
    [href |-> href, transcriber_start |-> 100 * k, transcriber_end |-> 100 * k + 50]

SegDocs(hrefs) ==
    UNION { { [k \in 1..n |-> SegNode(h[k], k)] : h \in [1..n -> hrefs] } :
            n \in 0..MaxSegNodes }

AttrNames == {"starttime", "endtime", "punc"}

AttrVal(a, k) ==
    CASE a = "starttime" -> 10 * k
      [] a = "endtime" -> 10 * k + 4
      [] OTHER -> "true"

\* the k-th child of a words document
WordXml(id, tag, names, text, k) ==
    [id |-> id, tag |-> tag, attrib |-> [a \in names |-> AttrVal(a, k)], text |-> text]

PosId(k) == WordsLit \o <<Digits[k + 1]>>

\* every tag, with and without each timing attribute, the ids unique
AnyWordKinds ==
    ({"w"} \X {{}, {"starttime"}, {"endtime"}, {"punc"}, {"starttime", "endtime"}, AttrNames})
        \cup ({"vocalsound"} \X {{}, {"starttime", "endtime"}})

AnyWordDocs ==
    UNION { { [k \in 1..n |-> WordXml(PosId(k - 1), c[k][1], c[k][2], <<"a">>, k)] :
              c \in [1..n -> AnyWordKinds] } :
            n \in 0..MaxWordNodes }

\* timed words and gaps, the ids drawn freely (two nodes may share one)
SharedIdDocs ==
    UNION { { [k \in 1..n |-> WordXml(c[k][1], "w", c[k][2], <<"a">>, k)] :
              c \in [1..n -> {PosId(0), PosId(1)} \X {{}, {"starttime", "endtime"}}] } :
            n \in 0..MaxWordNodes }

\* a gap, a word, a punctuation mark with empty text
FewWordKinds ==
    { <<"vocalsound", {"starttime", "endtime"}, <<"u", "h">> >>,
      <<"w", {"starttime", "endtime"}, <<"h", "i">> >>,
      <<"w", {"starttime", "endtime", "punc"}, <<>> >> }

FewWordDocs ==
    UNION { { [k \in 1..n |-> WordXml(PosId(k - 1), c[k][1], c[k][2], c[k][3], k)] :
              c \in [1..n -> FewWordKinds] } :
            n \in 0..MaxWordNodes }

SomeWordsDoc ==
    [k \in 1..MaxWordNodes |->
        WordXml(PosId(k - 1), "w", {"starttime", "endtime"}, <<"h", "i">>, k)]

SomeSegDoc == <<SegNode(RangeHref(<<"0">>, <<"1">>), 1)>>

IdleRttm ==
    /\ meet_id = "" /\ transcripts = <<>> /\ speakers = <<>>
    /\ result = Unbound /\ rttm = Unbound

IdleCli ==
    /\ meetings = <<>> /\ fs = <<>> /\ meet_data = <<>>
    /\ rttms = <<>> /\ output = <<>> /\ cursor = 0

IdleSpeaker ==
    /\ seg_file = None /\ words_file = None
    /\ spkr_seg = Unbound /\ spkr_words = Unbound
    /\ grouped_words = Unbound /\ sentences = Unbound

InitSpeaker ==
    /\ pc = "parse_segments"
    /\ exc = NoExc
    /\ \/ seg_file \in {Bound(d) : d \in SegDocs(SegHrefs)} /\ words_file = Bound(SomeWordsDoc)
       \/ seg_file = Bound(SomeSegDoc) /\ words_file \in {Bound(d) : d \in AnyWordDocs \cup SharedIdDocs}
       \/ seg_file \in {Bound(d) : d \in SegDocs(FewHrefs)} /\ words_file \in {Bound(d) : d \in FewWordDocs}
       \/ seg_file \in {None, Bound(SomeSegDoc)} /\ words_file \in {None, Bound(SomeWordsDoc)}
    /\ spkr_seg = Unbound
    /\ spkr_words = Unbound
    /\ grouped_words = Unbound
    /\ sentences = Unbound
    /\ IdleRttm
    /\ IdleCli

\* line 180
ParseSegments ==
    /\ pc = "parse_segments"
    /\ LET r == parse_segments(seg_file)
       IN  IF r.exc # NoExc
           THEN pc' = "raised" /\ exc' = r.exc /\ UNCHANGED spkr_seg
           ELSE pc' = "parse_words" /\ spkr_seg' = Bound(r.val) /\ UNCHANGED exc
    /\ UNCHANGED <<seg_file, words_file, spkr_words, grouped_words, sentences>>
    /\ UNCHANGED <<transcripts, speakers>>
    /\ UNCHANGED rttm_vars
    /\ UNCHANGED cli_vars

\* line 181
ParseWords ==
    /\ pc = "parse_words"
    /\ LET r == parse_words(words_file)
       IN  IF r.exc # NoExc
           THEN pc' = "raised" /\ exc' = r.exc /\ UNCHANGED spkr_words
           ELSE pc' = "join_seg_words" /\ spkr_words' = Bound(Values(r.val)) /\ UNCHANGED exc
    /\ UNCHANGED <<seg_file, words_file, spkr_seg, grouped_words, sentences>>
    /\ UNCHANGED <<transcripts, speakers>>
    /\ UNCHANGED rttm_vars
    /\ UNCHANGED cli_vars

\* line 194
JoinSegWords ==
    /\ pc = "join_seg_words"
    /\ LET r == join_seg_words(spkr_seg[1], spkr_words[1])
       IN  IF r.exc # NoExc
           THEN pc' = "raised" /\ exc' = r.exc /\ UNCHANGED grouped_words
           ELSE pc' = "sentences" /\ grouped_words' = Bound(r.val) /\ UNCHANGED exc
    /\ UNCHANGED <<seg_file, words_file, spkr_seg, spkr_words, sentences>>
    /\ UNCHANGED <<transcripts, speakers>>
    /\ UNCHANGED rttm_vars
    /\ UNCHANGED cli_vars

\* lines 195-206
MakeSentences ==
    /\ pc = "sentences"
    /\ sentences' = Bound(Sentences(grouped_words[1]))
    /\ pc' = "done"
    /\ UNCHANGED <<exc, seg_file, words_file, spkr_seg, spkr_words, grouped_words>>
    /\ UNCHANGED <<transcripts, speakers>>
    /\ UNCHANGED rttm_vars
    /\ UNCHANGED cli_vars

NextSpeaker == ParseSegments \/ ParseWords \/ JoinSegWords \/ MakeSentences

SpecSpeaker == InitSpeaker /\ [][NextSpeaker]_vars

-----------------------------------------------------------------------------
(* What the claims speak of, stated apart from the operators above.        *)

\* the tokens of a node's reference string
Tokens(node) == split(LastAfterHash(node.href))

\* a token holds 'words' followed by a digit somewhere
HasWordIndex(tok) ==
    \E p \in 1..Len(tok) :
        /\ p + 5 <= Len(tok)
        /\ \A j \in 0..4 : tok[p + j] = WordsLit[j + 1]
        /\ IsDigit(tok[p + 5])

\* the value of a decimal numeral, read from the left
RECURSIVE Decimal(_, _)
Decimal(acc, s) ==
    IF Len(s) = 0 THEN acc ELSE Decimal(10 * acc + DigitVal(Head(s)), Tail(s))

\* the integer of the digits the pattern matches in a token that has some
MatchedIndex(tok) ==
    LET p == Min({q \in 1..Len(tok) :
                     /\ q + 5 <= Len(tok)
                     /\ \A j \in 0..4 : tok[q + j] = WordsLit[j + 1]
                     /\ IsDigit(tok[q + 5])})
        stop == Min({q \in (p + 5)..(Len(tok) + 1) :
                        q = Len(tok) + 1 \/ ~IsDigit(tok[q])})
    IN  Decimal(0, SubSeq(tok, p + 5, stop - 1))

OneToken(node) == Len(Tokens(node)) = 1

TooManyTokens(node) == Len(Tokens(node)) > 2

Unmatched(node) ==
    /\ Len(Tokens(node)) = 2
    /\ ~HasWordIndex(Tokens(node)[1]) \/ ~HasWordIndex(Tokens(node)[2])

BadNode(node) == TooManyTokens(node) \/ Unmatched(node)

\* the range nodes of a segments document, in document order
RangeNodes(doc) == SelectSeq(doc, LAMBDA n : ~OneToken(n))

\* the indices (from 0) of the non-gap entries of the inclusive slice
\* [from, to] of a word timeline, as far as the timeline reaches
NonGaps(words, from, to) ==
    {i \in from..to : i < Len(words) /\ words[i + 1] # None}

\* the entries at a set of indices, in timeline order
RECURSIVE EntriesAt(_, _)
EntriesAt(words, S) ==
    IF S = {} THEN <<>>
    ELSE Append(EntriesAt(words, S \ {Max(S)}), words[Max(S) + 1])

\* the contents of the entries at a set of indices, joined by single spaces
RECURSIVE SpaceJoined(_, _)
SpaceJoined(words, S) ==
    IF S = {} THEN <<>>
    ELSE IF Cardinality(S) = 1 THEN words[Max(S) + 1][1].content
    ELSE SpaceJoined(words, S \ {Max(S)}) \o <<" ">> \o words[Max(S) + 1][1].content

\* the utterance of a set of non-gap indices
UtteranceOf(words, S) ==
    [start |-> words[Min(S) + 1][1].start,
     end |-> words[Max(S) + 1][1].end,
     content |-> SpaceJoined(words, S)]

InRange(words, b) ==
    /\ 0 <= b.from_word /\ b.from_word <= b.to_word /\ b.to_word < Len(words)

OutOfRange(words, b) == b.from_word >= Len(words) \/ b.to_word >= Len(words)

Speaks(words, b) == NonGaps(words, b.from_word, b.to_word) # {}

\* the position in the utterance list of the utterance of the k-th boundary
UtteranceIndex(segs, words, k) ==
    Cardinality({j \in 1..k : Speaks(words, segs[j])})

UniqueIds(doc) == \A j, k \in 1..Len(doc) : doc[j].id = doc[k].id => j = k

SegRoot == seg_file[1]

WordsRoot == words_file[1]

SegmentsParsed == spkr_seg # Unbound

WordsParsed == spkr_words # Unbound

Joined == grouped_words # Unbound

SentencesMade == sentences # Unbound

-----------------------------------------------------------------------------
(* C2: for every word timeline and every boundary 0 <= from <= to < len    *)
(* whose inclusive slice holds a non-gap entry, the utterance built for it *)
(* starts at the first non-gap entry's start, ends at the last one's end   *)
(* and its content is the space-joined contents of exactly the non-gap     *)
(* entries of the slice, in timeline order.                                *)
C2_SpanCorrect ==
    SentencesMade =>
        \A k \in 1..Len(spkr_seg[1]) :
            LET b == spkr_seg[1][k]
                w == spkr_words[1]
            IN  (InRange(w, b) /\ Speaks(w, b)) =>
                    /\ grouped_words[1][k] = EntriesAt(w, NonGaps(w, b.from_word, b.to_word))
                    /\ UtteranceIndex(spkr_seg[1], w, k) \in 1..Len(sentences[1])
                    /\ sentences[1][UtteranceIndex(spkr_seg[1], w, k)]
                           = UtteranceOf(w, NonGaps(w, b.from_word, b.to_word))

\* an utterance was built from a slice with a gap inside it, the entry at
\* index to included and an entry after the slice left out
C2_Witness ==
    /\ SentencesMade
    /\ \E k \in 1..Len(spkr_seg[1]) :
           LET b == spkr_seg[1][k]
               w == spkr_words[1]
           IN  /\ InRange(w, b) /\ b.from_word < b.to_word
               /\ b.to_word + 1 < Len(w) /\ w[b.to_word + 2] # None
               /\ w[b.to_word + 1] # None
               /\ \E i \in b.from_word..b.to_word : w[i + 1] = None
               /\ Len(sentences[1]) >= 1

(* C3: the utterance list holds, in boundary order, exactly one utterance  *)
(* for each boundary whose slice holds a non-gap entry and none for an     *)
(* all-gap slice; an all-gap slice raises nothing, and the list is no      *)
(* longer than the boundary list.                                          *)
C3_OneUtterancePerSpokenBoundary ==
    /\ (pc = "raised") => ~WordsParsed
    /\ SentencesMade =>
          LET segs == spkr_seg[1]
              w == spkr_words[1]
              spoken == {k \in 1..Len(segs) : Speaks(w, segs[k])}
          IN  /\ Len(sentences[1]) = Cardinality(spoken)
              /\ Len(sentences[1]) <= Len(segs)
              /\ \A k \in spoken :
                     sentences[1][UtteranceIndex(segs, w, k)]
                         = UtteranceOf(w, NonGaps(w, segs[k].from_word, segs[k].to_word))

\* an all-gap boundary stood before a spoken one and only the latter has an
\* utterance
C3_Witness ==
    /\ SentencesMade
    /\ Len(spkr_seg[1]) = 2
    /\ InRange(spkr_words[1], spkr_seg[1][1])
    /\ ~Speaks(spkr_words[1], spkr_seg[1][1])
    /\ Speaks(spkr_words[1], spkr_seg[1][2])
    /\ Len(sentences[1]) = 1

(* C4: a node whose reference splits on '..' into one token yields no      *)
(* boundary record and no error, hence no utterance; the boundaries of the *)
(* other nodes are unaffected and keep document order.                     *)
C4_SingleAnchorDropped ==
    (seg_file # None /\ pc # "parse_segments") =>
        /\ (\A k \in 1..Len(SegRoot) : ~BadNode(SegRoot[k])) => SegmentsParsed
        /\ SegmentsParsed =>
              LET ranges == RangeNodes(SegRoot)
              IN  /\ Len(spkr_seg[1]) = Len(ranges)
                  /\ \A k \in 1..Len(spkr_seg[1]) :
                         spkr_seg[1][k] =
                             [start |-> ranges[k].transcriber_start,
                              end |-> ranges[k].transcriber_end,
                              from_word |-> MatchedIndex(Tokens(ranges[k])[1]),
                              to_word |-> MatchedIndex(Tokens(ranges[k])[2])]
        /\ Joined => Len(grouped_words[1]) = Len(RangeNodes(SegRoot))
        /\ SentencesMade => Len(sentences[1]) <= Len(RangeNodes(SegRoot))

\* a one-token node before a range node: one boundary, one utterance
C4_Witness ==
    /\ SentencesMade
    /\ Len(SegRoot) = 2
    /\ OneToken(SegRoot[1])
    /\ ~OneToken(SegRoot[2])
    /\ Len(spkr_seg[1]) = 1
    /\ Len(sentences[1]) = 1

(* C5: parse_segments raises, returning no list, when some node's          *)
(* reference has more than two tokens (unknown type) or two tokens one of  *)
(* which holds no 'words' followed by digits (no word id); the exception   *)
(* is that of the first such node.  When both tokens match, from_word and  *)
(* to_word are the integers of the matched digits.                         *)
C5_BadReferenceRaises ==
    (seg_file # None /\ pc # "parse_segments") =>
        /\ (\E k \in 1..Len(SegRoot) : BadNode(SegRoot[k])) =>
              LET first == Min({k \in 1..Len(SegRoot) : BadNode(SegRoot[k])})
              IN  /\ pc = "raised"
                  /\ ~SegmentsParsed
                  /\ exc = IF TooManyTokens(SegRoot[first]) THEN UnknownType ELSE NoWordId
        /\ SegmentsParsed =>
              LET ranges == RangeNodes(SegRoot)
              IN  \A k \in 1..Len(ranges) :
                      LET tokens == Tokens(ranges[k])
                      IN  /\ spkr_seg[1][k].from_word = MatchedIndex(tokens[1])
                          /\ spkr_seg[1][k].to_word = MatchedIndex(tokens[2])

\* a good range node came first and a bad node after it: the run raised
C5_Witness ==
    /\ pc = "raised"
    /\ seg_file # None
    /\ Len(SegRoot) = 2
    /\ ~BadNode(SegRoot[1]) /\ ~OneToken(SegRoot[1])
    /\ BadNode(SegRoot[2])
    /\ ~SegmentsParsed

(* C6 as claimed: a boundary whose range leaves the word timeline aborts   *)
(* the run, so join_seg_words never returns when one is present.           *)
C6_OutOfRangeAborts ==
    Joined => \A k \in 1..Len(spkr_seg[1]) : ~OutOfRange(spkr_words[1], spkr_seg[1][k])

(* C6 as amended: a boundary whose range leaves the word timeline raises   *)
(* nothing; its words are those of the part of [from, to] the timeline     *)
(* holds, and it has an utterance exactly when that part holds a non-gap   *)
(* entry.                                                                  *)
C6_OutOfRangeClipped ==
    /\ (pc = "raised") => ~WordsParsed
    /\ Joined =>
          \A k \in 1..Len(spkr_seg[1]) :
              LET b == spkr_seg[1][k]
                  w == spkr_words[1]
              IN  OutOfRange(w, b) =>
                      /\ grouped_words[1][k] = EntriesAt(w, NonGaps(w, b.from_word, b.to_word))
                      /\ (SentencesMade /\ Speaks(w, b)) =>
                             sentences[1][UtteranceIndex(spkr_seg[1], w, k)]
                                 = UtteranceOf(w, NonGaps(w, b.from_word, b.to_word))
    /\ SentencesMade =>
          Len(sentences[1]) =
              Cardinality({k \in 1..Len(spkr_seg[1]) : Speaks(spkr_words[1], spkr_seg[1][k])})

\* a boundary reaching past the end of the timeline got an utterance from
\* the words that exist
C6_Witness ==
    /\ SentencesMade
    /\ \E k \in 1..Len(spkr_seg[1]) :
           /\ spkr_seg[1][k].from_word < Len(spkr_words[1])
           /\ spkr_seg[1][k].to_word >= Len(spkr_words[1])
           /\ Speaks(spkr_words[1], spkr_seg[1][k])
    /\ Len(sentences[1]) >= 1

(* C8 as claimed: a node is a gap exactly when it is no lexical node or    *)
(* lacks both timing attributes, so a lexical node with one of the two is  *)
(* a word entry; one timeline position per node.                           *)
C8_GapIffLacksBoth ==
    (WordsParsed /\ UniqueIds(WordsRoot)) =>
        /\ Len(spkr_words[1]) = Len(WordsRoot)
        /\ \A k \in 1..Len(WordsRoot) :
               (spkr_words[1][k] = None) <=>
                   \/ WordsRoot[k].tag # "w"
                   \/ /\ "starttime" \notin DOMAIN WordsRoot[k].attrib
                      /\ "endtime" \notin DOMAIN WordsRoot[k].attrib

(* C8 as amended: for a document whose node ids are unique, parse_words    *)
(* maps each node, in document order and one position per node, to a gap   *)
(* if it is no lexical node or lacks a start or an end time attribute, and *)
(* otherwise to an entry with its start, end, text and punctuation flag.   *)
C8_GapIffLacksEither ==
    (WordsParsed /\ UniqueIds(WordsRoot)) =>
        /\ Len(spkr_words[1]) = Len(WordsRoot)
        /\ \A k \in 1..Len(WordsRoot) :
               LET n == WordsRoot[k]
               IN  IF \/ n.tag # "w"
                      \/ "starttime" \notin DOMAIN n.attrib
                      \/ "endtime" \notin DOMAIN n.attrib
                   THEN spkr_words[1][k] = None
                   ELSE spkr_words[1][k] =
                            <<[start |-> n.attrib["starttime"],
                               end |-> n.attrib["endtime"],
                               content |-> n.text,
                               punc |-> ("punc" \in DOMAIN n.attrib)]>>

\* a lexical node with one timing attribute, a non-lexical node with both
\* and a timed word were parsed
C8_Witness ==
    /\ WordsParsed
    /\ UniqueIds(WordsRoot)
    /\ Len(WordsRoot) = 3
    /\ WordsRoot[1].tag = "w" /\ DOMAIN WordsRoot[1].attrib = {"starttime"}
    /\ WordsRoot[2].tag # "w" /\ DOMAIN WordsRoot[2].attrib = {"starttime", "endtime"}
    /\ WordsRoot[3].tag = "w" /\ spkr_words[1][3] # None

(* C9 as claimed: every boundary parse_segments returns has                *)
(* from_word <= to_word.                                                   *)
C9_FromAtMostTo ==
    SegmentsParsed => \A k \in 1..Len(spkr_seg[1]) : spkr_seg[1][k].from_word <= spkr_seg[1][k].to_word

(* C9 as amended: parse_segments returns a two-token reference whose first *)
(* index is greater than its second as a boundary with from_word > to_word *)
(* unchanged; the reconstruction resolves it to an empty slice and drops   *)
(* it without an error, as it drops an all-gap span.                       *)
C9_ReversedPassedOn ==
    /\ (pc = "raised") => ~WordsParsed
    /\ SegmentsParsed =>
          \A k \in 1..Len(spkr_seg[1]) :
              LET tokens == Tokens(RangeNodes(SegRoot)[k])
                  f == MatchedIndex(tokens[1])
                  t == MatchedIndex(tokens[2])
              IN  f > t =>
                      /\ spkr_seg[1][k].from_word = f
                      /\ spkr_seg[1][k].to_word = t
                      /\ Joined => grouped_words[1][k] = <<>>
    /\ SentencesMade =>
          Len(sentences[1]) =
              Cardinality({k \in 1..Len(spkr_seg[1]) :
                              /\ spkr_seg[1][k].from_word <= spkr_seg[1][k].to_word
                              /\ Speaks(spkr_words[1], spkr_seg[1][k])})

\* a reversed reference over spoken words was parsed and left no utterance
C9_Witness ==
    /\ SentencesMade
    /\ Len(spkr_seg[1]) = 1
    /\ spkr_seg[1][1].from_word > spkr_seg[1][1].to_word
    /\ spkr_seg[1][1].from_word < Len(spkr_words[1])
    /\ \A i \in 1..Len(spkr_words[1]) : spkr_words[1][i] # None
    /\ sentences[1] = <<>>

-----------------------------------------------------------------------------
(* make_rttm as a run of its own, one step per stage: the rows appended    *)
(* (lines 111-120), sorted (line 122), stripped and returned (123-125).    *)

Labels == {"A", "B"}

UttStarts == {0, 1}

UttEnds == {0, 3}

Utterances == [start : UttStarts, end : UttEnds, content : {<<"h", "i">>}]

UttLists(n) == UNION { [1..k -> Utterances] : k \in 0..n }

\* the label -> utterances dicts of at most MaxTurns utterances in all
Transcripts ==
    {<<>>}
    \cup { << <<a, l>> >> : a \in Labels, l \in UttLists(MaxTurns) }
    \cup UNION { { << <<ab[1], la>>, <<ab[2], lb>> >> : lb \in UttLists(MaxTurns - Len(la)) } :
                 ab \in {p \in Labels \X Labels : p[1] # p[2]}, la \in UttLists(MaxTurns) }

Person(name, channel) == [id |-> name, channel |-> channel]

Rosters ==
    { << <<"A", Person("FEE005", 0)>>, <<"B", Person("MEE006", 1)>> >>,
      << <<"A", Person("FEE005", 0)>> >>,
      << <<"B", Person("MEE006", 1)>> >> }

OtherTranscript == << <<"A", <<[start |-> 1, end |-> 4, content |-> <<"h", "i">>]>> >> >>

OtherRoster == << <<"A", Person("MEE007", 0)>> >>

InitRttm ==
    /\ pc = "append"
    /\ exc = NoExc
    /\ meet_id = "ES2002a"
    /\ transcripts \in { << <<"ES2002a", t>>, <<"ES2002b", OtherTranscript>> >> : t \in Transcripts }
    /\ speakers \in { << <<"ES2002a", r>>, <<"ES2002b", OtherRoster>> >> : r \in Rosters }
    /\ result = Unbound
    /\ rttm = Unbound
    /\ IdleSpeaker
    /\ IdleCli

\* lines 111-120
AppendRows ==
    /\ pc = "append"
    /\ LET r == RttmRows(<<>>, meet_id, Get(transcripts, meet_id), speakers)
       IN  IF r.exc # NoExc
           THEN pc' = "raised" /\ exc' = r.exc /\ UNCHANGED result
           ELSE pc' = "sort" /\ result' = Bound(r.val) /\ UNCHANGED exc
    /\ UNCHANGED <<meet_id, transcripts, speakers, rttm>>
    /\ UNCHANGED speaker_vars
    /\ UNCHANGED cli_vars

\* line 122
SortRows ==
    /\ pc = "sort"
    /\ result' = Bound(SortByStart(result[1]))
    /\ pc' = "strip"
    /\ UNCHANGED <<exc, meet_id, transcripts, speakers, rttm>>
    /\ UNCHANGED speaker_vars
    /\ UNCHANGED cli_vars

\* lines 123-125
ReturnRows ==
    /\ pc = "strip"
    /\ rttm' = Bound(RowsOnly(result[1]))
    /\ pc' = "done"
    /\ UNCHANGED <<exc, meet_id, transcripts, speakers, result>>
    /\ UNCHANGED speaker_vars
    /\ UNCHANGED cli_vars

NextRttm == AppendRows \/ SortRows \/ ReturnRows

SpecRttm == InitRttm /\ [][NextRttm]_vars

-----------------------------------------------------------------------------
(* What the claims about the merge speak of.                               *)

\* the items of the meeting's transcript: <<label, utterances>> in order
Items == Get(transcripts, meet_id)

Roster == Get(speakers, meet_id)

\* the <<label, utterance>> pairs of a transcript: the labels in their
\* order, each label's utterances in the order of its list
RECURSIVE Turns(_)
Turns(items) ==
    IF Len(items) = 0 THEN <<>>
    ELSE [u \in 1..Len(Head(items)[2]) |-> <<Head(items)[1], Head(items)[2][u]>>]
             \o Turns(Tail(items))

TurnCount == Len(Turns(Items))

\* the thousandths nearest to x fifths of a millisecond
Thousandths(x) == CHOOSE m \in 0..Abs(x) : 5 * m - 2 <= Abs(x) /\ Abs(x) <= 5 * m + 2

\* the row the claim gives an utterance of a speaker label
TurnRow(label, utt) ==
    <<"SPEAKER", meet_id, "1",
      <<IF utt.start < 0 THEN "-" ELSE "", Thousandths(utt.start)>>,
      <<IF utt.end - utt.start < 0 THEN "-" ELSE "", Thousandths(utt.end - utt.start)>>,
      "<NA>", "<NA>", Get(Roster, label).id, "<NA>", "<NA>">>

\* the (start, row) pairs in insertion order
Inserted ==
    LET turns == Turns(Items)
    IN  [r \in 1..Len(turns) |-> <<turns[r][2].start, TurnRow(turns[r][1], turns[r][2])>>]

Count(l, x) == Cardinality({i \in 1..Len(l) : l[i] = x})

Unknown(s) == ~HasKey(Roster, Items[s][1])

Sorted == pc \in {"strip", "done"}

(* C1: the rows make_rttm returns are in non-decreasing order of utterance *)
(* start, and rows of equal start are in insertion order: the order of the *)
(* speaker labels in transcripts[meet_id], then the utterance's place in   *)
(* its speaker's list.                                                     *)
C1_SortedStable ==
    Sorted =>
        /\ \A i, j \in 1..Len(result[1]) : i < j => result[1][i][1] <= result[1][j][1]
        /\ LET inserted == Inserted
           IN  \A v \in UttStarts :
                   SelectSeq(result[1], LAMBDA x : x[1] = v) = SelectSeq(inserted, LAMBDA x : x[1] = v)
        /\ (pc = "done") =>
               /\ Len(rttm[1]) = Len(result[1])
               /\ \A i \in 1..Len(rttm[1]) : rttm[1][i] = result[1][i][2]

\* two speakers: the first has the later start, the second two utterances
\* of one start and different rows, one of them before and all returned
C1_Witness ==
    /\ pc = "done"
    /\ Len(Items) = 2
    /\ Len(Items[1][2]) = 1 /\ Len(Items[2][2]) = 2
    /\ Items[1][2][1].start = 1
    /\ Items[2][2][1].start = 1 /\ Items[2][2][2].start = 0
    /\ Items[1][2][1].end # Items[2][2][1].end
    /\ Len(rttm[1]) = 3

(* C10 as claimed: a speaker label of the meeting that the roster does not *)
(* hold makes the merge fail.                                              *)
C10_UnknownLabelFails ==
    (pc # "append" /\ \E s \in 1..Len(Items) : Unknown(s)) => pc = "raised"

(* C10 as amended: the merge fails, returning nothing, exactly when some   *)
(* speaker label of the meeting with at least one utterance is missing     *)
(* from the roster (a missing label without utterances adds no row and no  *)
(* failure); otherwise the rows are a permutation of one row per (label,   *)
(* utterance) pair, each with the meeting's id, the utterance's start and  *)
(* end - start to three decimals and the roster's identity of the label.   *)
C10_NoTurnLostOrInvented ==
    (pc # "append") =>
        /\ (pc = "raised") <=> (\E s \in 1..Len(Items) : Unknown(s) /\ Len(Items[s][2]) > 0)
        /\ (pc = "raised") => (exc = KeyError /\ result = Unbound /\ rttm = Unbound)
        /\ (pc # "raised") =>
               LET inserted == Inserted
               IN  /\ Len(result[1]) = TurnCount
                   /\ \A r \in 1..TurnCount :
                          Count(result[1], inserted[r]) = Count(inserted, inserted[r])
                   /\ (pc = "done") =>
                          /\ Len(rttm[1]) = TurnCount
                          /\ \A r \in 1..TurnCount :
                                 Count(rttm[1], inserted[r][2])
                                     = Count([i \in 1..TurnCount |-> inserted[i][2]], inserted[r][2])

\* a label the roster lacks had no utterance, the other label had two, and
\* both rows were returned
C10_Witness ==
    /\ pc = "done"
    /\ Len(Items) = 2
    /\ Unknown(1) /\ Len(Items[1][2]) = 0
    /\ Len(Items[2][2]) = 2
    /\ Items[2][2][1].start > Items[2][2][2].start
    /\ Len(rttm[1]) = 2

-----------------------------------------------------------------------------
(* run_from_cli from line 170 on: the roster is read (lines 134-168), the  *)
(* annotation files are what the paths of lines 177-178 lead to.  One step *)
(* per pass of each of the four loops over the meetings.                   *)

SegPath(meet, spkr_id) == <<"segments", meet, spkr_id>>

WordsPath(meet, spkr_id) == <<"words", meet, spkr_id>>

\* LoadSpeakers, were a speaker whose files cannot be read passed over
RECURSIVE LoadSpeakersSkipFailed(_, _, _, _)
LoadSpeakersSkipFailed(tmp, meet, labels, files) ==
    IF Len(labels) = 0 THEN Return(tmp)
    ELSE LET seg == parse_segments(files[SegPath(meet, Head(labels))])
             wrd == parse_words(files[WordsPath(meet, Head(labels))])
         IN  IF seg.exc # NoExc \/ wrd.exc # NoExc
             THEN LoadSpeakersSkipFailed(tmp, meet, Tail(labels), files)
             ELSE LoadSpeakersSkipFailed(
                      Put(tmp, Head(labels), [segments |-> seg.val, words |-> Values(wrd.val)]),
                      meet, Tail(labels), files)

\* lines 176-185: tmp after the speakers of one meeting, or the exception
RECURSIVE LoadSpeakers(_, _, _, _)
LoadSpeakers(tmp, meet, labels, files) ==
    IF Len(labels) = 0 THEN Return(tmp)
    ELSE LET seg == parse_segments(files[SegPath(meet, Head(labels))])
             wrd == parse_words(files[WordsPath(meet, Head(labels))])
         IN  IF seg.exc # NoExc THEN seg
             ELSE IF wrd.exc # NoExc THEN wrd
             ELSE LoadSpeakers(
                      Put(tmp, Head(labels), [segments |-> seg.val, words |-> Values(wrd.val)]),
                      meet, Tail(labels), files)

\* lines 193-206: tmp after the speakers of one meeting
RECURSIVE JoinSpeakers(_, _)
JoinSpeakers(tmp, m_data) ==
    IF Len(m_data) = 0 THEN Return(tmp)
    ELSE LET speech == Head(m_data)[2]
             grouped == join_seg_words(speech.segments, speech.words)
         IN  IF grouped.exc # NoExc THEN grouped
             ELSE JoinSpeakers(Put(tmp, Head(m_data)[1], Sentences(grouped.val)), Tail(m_data))

GoodSegDoc(k) ==
    <<SegNode(RangeHref(<<"0">>, <<"1">>), 1), SegNode(RangeHref(<<Digits[k]>>, <<Digits[k + 1]>>), 2)>>

BadSegDoc ==
    <<SegNode(RangeHref(<<"0">>, <<"1">>), 1),
      SegNode(HrefFile \o WordId(<<"0">>) \o DotDot \o WordId(<<"1">>) \o DotDot \o WordId(<<"2">>), 2)>>

CliMeetings == <<"ES2002a", "ES2002b">>

CliSpeakers ==
    << <<"ES2002a", << <<"A", Person("FEE005", 0)>>, <<"B", Person("MEE006", 1)>> >> >>,
       <<"ES2002b", << <<"A", Person("MEE007", 0)>> >> >> >>

CliPaths ==
    UNION { {SegPath(CliSpeakers[m][1], CliSpeakers[m][2][s][1]),
             WordsPath(CliSpeakers[m][1], CliSpeakers[m][2][s][1])} :
            <<m, s>> \in {p \in (1..Len(CliSpeakers)) \X (1..2) : p[2] <= Len(CliSpeakers[p[1]][2])} }

\* every file is missing, unreadable (a segments file) or good
CliSegFiles == {None, Bound(GoodSegDoc(1)), Bound(GoodSegDoc(2)), Bound(BadSegDoc)}

CliWordsFiles == {None, Bound(SomeWordsDoc)}

CliFiles ==
    { [p \in CliPaths |-> IF p[1] = "segments" THEN sf[p] ELSE wf[p]] :
          sf \in [{p \in CliPaths : p[1] = "segments"} -> CliSegFiles],
          wf \in [{p \in CliPaths : p[1] = "words"} -> CliWordsFiles] }

Init ==
    /\ pc = "load"
    /\ exc = NoExc
    /\ meetings = CliMeetings
    /\ speakers = CliSpeakers
    /\ fs \in CliFiles
    /\ meet_data = <<>>
    /\ transcripts = <<>>
    /\ rttms = <<>>
    /\ output = <<>>
    /\ cursor = 0
    /\ meet_id = ""
    /\ result = Unbound
    /\ rttm = Unbound
    /\ IdleSpeaker

\* the position after one pass of a loop over the meetings
Advance(next) ==
    IF cursor + 1 < Len(meetings)
    THEN cursor' = cursor + 1 /\ UNCHANGED pc
    ELSE cursor' = 0 /\ pc' = next

\* lines 172-187, one meeting
LoadMeeting ==
    /\ pc = "load"
    /\ LET meet == Item(meetings, cursor)
           r == LoadSpeakers(<<>>, meet, Keys(Get(speakers, meet)), fs)
       IN  IF r.exc # NoExc
           THEN pc' = "raised" /\ exc' = r.exc /\ UNCHANGED <<meet_data, cursor>>
           ELSE meet_data' = Put(meet_data, meet, r.val) /\ Advance("join") /\ UNCHANGED exc
    /\ UNCHANGED <<meetings, speakers, fs, transcripts, rttms, output>>
    /\ UNCHANGED speaker_vars
    /\ UNCHANGED rttm_vars

\* lines 191-207, one meeting
JoinMeeting ==
    /\ pc = "join"
    /\ LET r == JoinSpeakers(<<>>, Item(meet_data, cursor)[2])
       IN  IF r.exc # NoExc
           THEN pc' = "raised" /\ exc' = r.exc /\ UNCHANGED <<transcripts, cursor>>
           ELSE /\ transcripts' = Put(transcripts, Item(meet_data, cursor)[1], r.val)
                /\ Advance("rttm")
                /\ UNCHANGED exc
    /\ UNCHANGED <<meetings, speakers, fs, meet_data, rttms, output>>
    /\ UNCHANGED speaker_vars
    /\ UNCHANGED rttm_vars

\* lines 210-211, one meeting
RttmMeeting ==
    /\ pc = "rttm"
    /\ LET r == make_rttm(Item(meet_data, cursor)[1], transcripts, speakers)
       IN  IF r.exc # NoExc
           THEN pc' = "raised" /\ exc' = r.exc /\ UNCHANGED <<rttms, cursor>>
           ELSE /\ rttms' = Put(rttms, Item(meet_data, cursor)[1], r.val)
                /\ Advance("write")
                /\ UNCHANGED exc
    /\ UNCHANGED <<meetings, speakers, fs, meet_data, transcripts, output>>
    /\ UNCHANGED speaker_vars
    /\ UNCHANGED rttm_vars

\* lines 216-218, one meeting
WriteMeeting ==
    /\ pc = "write"
    /\ output' = Put(output, Item(rttms, cursor)[1], Item(rttms, cursor)[2])
    /\ Advance("done")
    /\ UNCHANGED <<exc, meetings, speakers, fs, meet_data, transcripts, rttms>>
    /\ UNCHANGED speaker_vars
    /\ UNCHANGED rttm_vars

Next == LoadMeeting \/ JoinMeeting \/ RttmMeeting \/ WriteMeeting

Spec == Init /\ [][Next]_vars

-----------------------------------------------------------------------------
(* What the claim about a failing file speaks of.                          *)

SegFileOk(f) == f # None /\ \A k \in 1..Len(f[1]) : ~BadNode(f[1][k])

WordsFileOk(f) == f # None

LabelsOf(meet) == Keys(Get(speakers, meet))

SpeakerOk(meet, label) == SegFileOk(fs[SegPath(meet, label)]) /\ WordsFileOk(fs[WordsPath(meet, label)])

MeetingOk(meet) == \A s \in 1..Len(LabelsOf(meet)) : SpeakerOk(meet, LabelsOf(meet)[s])

\* what a meeting's files alone give for it
OutputOf(meet) ==
    LET labels == LabelsOf(meet)
        trans == [s \in 1..Len(labels) |->
                     <<labels[s],
                       Sentences(join_seg_words(
                           parse_segments(fs[SegPath(meet, labels[s])]).val,
                           Values(parse_words(fs[WordsPath(meet, labels[s])]).val)).val)>>]
    IN  make_rttm(meet, << <<meet, trans>> >>, speakers).val

Ended == pc \in {"done", "raised"}

(* C7 as claimed: a failure in a speaker's file aborts that file's meeting *)
(* only: once the run has ended, every meeting whose own files are all     *)
(* valid has its complete output and a meeting with a failing file none.   *)
C7_OtherMeetingsWritten ==
    Ended =>
        \A m \in 1..Len(meetings) :
            IF MeetingOk(meetings[m])
            THEN HasKey(output, meetings[m]) /\ Get(output, meetings[m]) = OutputOf(meetings[m])
            ELSE ~HasKey(output, meetings[m])

(* C7 as amended: a failure (missing file, parse error) in any single      *)
(* speaker file aborts the whole run with that file's exception: no        *)
(* meeting, valid or not, gets any output.  Only when every file of every  *)
(* meeting is valid does each meeting get its complete output.             *)
C7_FailureAbortsRun ==
    /\ (\E m \in 1..Len(meetings) : ~MeetingOk(meetings[m])) =>
           /\ output = <<>>
           /\ pc \in {"load", "raised"}
    /\ (pc = "raised") =>
           /\ output = <<>>
           /\ \E m \in 1..Len(meetings) : ~MeetingOk(meetings[m])
           /\ exc \in {FileNotFound, UnknownType}
    /\ (pc = "done") =>
           \A m \in 1..Len(meetings) :
               HasKey(output, meetings[m]) /\ Get(output, meetings[m]) = OutputOf(meetings[m])

\* the first meeting was read whole, a file of the second failed, and the
\* run ended with nothing written
C7_Witness ==
    /\ pc = "raised"
    /\ MeetingOk(meetings[1])
    /\ HasKey(meet_data, meetings[1])
    /\ ~MeetingOk(meetings[2])
    /\ output = <<>>

=============================================================================
